---- MODULE Spec2Model ----
(***************************************************************************)
(* Collision detection, magnetic repulsion and placement search for canvas *)
(* nodes (getNodeBounds, calculateAdaptivePadding, checkCollision,         *)
(* calculateRepulsionForce, findValidPosition).                            *)
(*                                                                         *)
(* Numbers.  A JavaScript Number n is represented by the integer n * PX    *)
(* (fixed point, eighths of a pixel).  With node dimensions that are       *)
(* multiples of 10 pixels every padding, half padding, edge and center of  *)
(* the source is represented exactly.  Ratios in [-1, 1] (unit vectors,    *)
(* cosines, normalised overlap, strength) are represented by the integer   *)
(* ratio * ONE.  Math.sqrt, Math.cos and Math.sin are computed in that     *)
(* arithmetic (integer square root, Taylor polynomial); quotients are      *)
(* truncated toward zero, symmetrically in the sign as IEEE division is.   *)
(* The local constants of a source function are the parameters of the      *)
(* operators that continue it.                                             *)
(***************************************************************************)
EXTENDS Integers, Sequences, FiniteSets, TLC

PX == 2 * 4
ONE == 10 ^ 4

Px(n) == n * PX

Abs(a) == IF a < 0 THEN 0 - a ELSE a
MathMin(a, b) == IF a < b THEN a ELSE b
MathMax(a, b) == IF a > b THEN a ELSE b
\* a / b, truncated toward zero
Quot(a, b) == IF (a < 0) = (b < 0) THEN Abs(a) \div Abs(b) ELSE 0 - (Abs(a) \div Abs(b))
\* a * b for a fixed-point a and a ratio b (scaled by ONE)
Scale(a, b) == Quot(a * b, ONE)

RECURSIVE SqrtSearch(_, _, _)
SqrtSearch(n, lo, hi) ==
  IF lo >= hi THEN lo
  ELSE IF ((lo + hi + 1) \div 2) * ((lo + hi + 1) \div 2) <= n
       THEN SqrtSearch(n, (lo + hi + 1) \div 2, hi)
       ELSE SqrtSearch(n, lo, (lo + hi + 1) \div 2 - 1)
\* Math.sqrt: the largest integer whose square is at most n
MathSqrt(n) == SqrtSearch(n, 0, 46340)

\* Math.PI in micro-radians
MathPI == 3141593
\* 1 - x2/2 + x2^2/24 - x2^3/720 + x2^4/40320 for x2 the square of the angle
CosSeries(t2) ==
  ONE - ((t2 * (ONE - ((t2 * (ONE - ((t2 * (ONE - t2 \div 56)) \div ONE) \div 30))
                       \div ONE) \div 12)) \div ONE) \div 2
\* cosine of x micro-radians, 0 <= x <= PI/2, as a ratio scaled by ONE
CosQuadrant(x) == CosSeries(((x \div 100) * (x \div 100)) \div ONE)
\* cosine of a micro-radians, 0 <= a < 2 PI
CosTurn(a) ==
  IF a <= MathPI \div 2 THEN CosQuadrant(a)
  ELSE IF a <= MathPI THEN 0 - CosQuadrant(MathPI - a)
  ELSE IF a <= MathPI + MathPI \div 2 THEN 0 - CosQuadrant(a - MathPI)
  ELSE CosQuadrant(2 * MathPI - a)
\* Math.cos of an angle in micro-radians
MathCos(angle) == CosTurn(angle % (2 * MathPI))
\* Math.sin of an angle in micro-radians
MathSin(angle) == MathCos(angle + MathPI + MathPI \div 2)

(***************************************************************************)
(* JavaScript values of the optional fields style.width, data.width, ...   *)
(***************************************************************************)
Undefined == [t |-> "undefined"]
Num(n) == [t |-> "number", v |-> n]
Str == [t |-> "string"]
Truthy(v) == (v.t = "number" /\ v.v # 0) \/ v.t = "string"
TypeofNumber(v) == v.t = "number"

(***************************************************************************)
(* DEFAULT_NODE_SIZES (width, height in pixels) and getDefaultNodeSize     *)
(***************************************************************************)
DEFAULT_NODE_SIZES ==
  [agent |-> <<200, 120>>, contact |-> <<120, 140>>, chess |-> <<360, 360>>,
   app |-> <<400, 300>>, metric |-> <<160, 120>>, graph |-> <<500, 400>>,
   winamp |-> <<307, 400>>, butterchurn |-> <<400, 300>>, pomodoro |-> <<228, 228>>,
   flipclock |-> <<300, 342>>, shader |-> <<200, 150>>, matrix |-> <<500, 500>>,
   portal |-> <<150, 100>>, note |-> <<200, 150>>, task |-> <<200, 100>>,
   stack |-> <<200, 150>>, device |-> <<200, 150>>, synth |-> <<300, 200>>,
   drummachine |-> <<400, 300>>, sticker |-> <<200, 200>>, stickerpack |-> <<300, 200>>,
   contactsStack |-> <<280, 200>>, action |-> <<80, 80>>, guitartuna |-> <<380, 200>>,
   audiointerface |-> <<360, 220>>, templatebrowser |-> <<400, 500>>,
   projecthub |-> <<320, 280>>, temporalinbox |-> <<280, 320>>, kanban |-> <<600, 400>>,
   gtdinbox |-> <<480, 420>>, mindmap |-> <<600, 400>>, timeline |-> <<700, 400>>,
   sketch |-> <<600, 500>>, photoeditor |-> <<560, 440>>, audioeditor |-> <<600, 380>>,
   publisher |-> <<650, 600>>, default |-> <<200, 150>>]

\* table[key] || table.default
Lookup(table, key) == IF key \in DOMAIN table THEN table[key] ELSE table["default"]
SizeOf(entry) == [width |-> Px(entry[1]), height |-> Px(entry[2])]
getDefaultNodeSize(nodeType) == SizeOf(Lookup(DEFAULT_NODE_SIZES, nodeType))

(***************************************************************************)
(* getNodeBounds                                                           *)
(***************************************************************************)
\* node.style?.width || (node.data?.width && typeof node.data.width === 'number'
\*                       ? node.data.width : null) || defaultSize.width
explicitOrDefault(styleValue, dataValue, defaultValue) ==
  IF Truthy(styleValue) THEN styleValue.v
  ELSE IF Truthy(dataValue) /\ TypeofNumber(dataValue) THEN dataValue.v
  ELSE defaultValue

boundsOf(x, y, width, height) ==
  [x |-> x, y |-> y, width |-> width, height |-> height,
   centerX |-> x + Quot(width, 2), centerY |-> y + Quot(height, 2),
   right |-> x + width, bottom |-> y + height]

sizedBounds(node, defaultSize) ==
  boundsOf(node.position.x, node.position.y,
           explicitOrDefault(node.style.width, node.data.width, defaultSize.width),
           explicitOrDefault(node.style.height, node.data.height, defaultSize.height))

getNodeBounds(node) == sizedBounds(node, getDefaultNodeSize(node.type))

(***************************************************************************)
(* calculateAdaptivePadding                                                *)
(***************************************************************************)
BasePadding == 20
MinPadding == 20
MaxPadding == 100

\* variant: the second height is taken from the first node
avgSizeOfFirstHeightTwice(bounds1, bounds2) ==
  Quot(bounds1.width + bounds1.height + bounds2.width + bounds1.height, 4)
avgSizeOf(bounds1, bounds2) ==
  Quot(bounds1.width + bounds1.height + bounds2.width + bounds2.height, 4)
\* variant: the upper cap is left out
totalPaddingOfUncapped(avgSize) ==
  MathMax(Px(MinPadding), Px(BasePadding) + Quot(avgSize, 10))
\* Math.max(20, Math.min(100, 20 + avgSize * 0.1))
totalPaddingOf(avgSize) ==
  MathMax(Px(MinPadding), MathMin(Px(MaxPadding), Px(BasePadding) + Quot(avgSize, 10)))

calculateAdaptivePadding(node1, node2) ==
  totalPaddingOf(avgSizeOf(getNodeBounds(node1), getNodeBounds(node2)))

(***************************************************************************)
(* checkCollision                                                          *)
(***************************************************************************)
\* the distance of a cross-parent result (JavaScript Infinity)
Infinity == [t |-> "Infinity"]

\* variant: the sum of the two differences instead of the Euclidean length
DistanceManhattan(dx, dy) == Abs(dx) + Abs(dy)
\* Math.sqrt(dx * dx + dy * dy)
Distance(dx, dy) == MathSqrt(dx * dx + dy * dy)
centerDistance(bounds1, bounds2) ==
  Distance(bounds1.centerX - bounds2.centerX, bounds1.centerY - bounds2.centerY)

\* expanded1, expanded2
expand(bounds, by) ==
  [x |-> bounds.x - by, y |-> bounds.y - by,
   right |-> bounds.right + by, bottom |-> bounds.bottom + by,
   width |-> bounds.width + by * 2, height |-> bounds.height + by * 2]

\* variant: rectangles that only touch count as apart
overlappingStrictly(expanded1, expanded2) ==
  ~(expanded1.right <= expanded2.x \/ expanded1.x >= expanded2.right
    \/ expanded1.bottom <= expanded2.y \/ expanded1.y >= expanded2.bottom)
\* the AABB test
overlapping(expanded1, expanded2) ==
  ~(expanded1.right < expanded2.x \/ expanded1.x > expanded2.right
    \/ expanded1.bottom < expanded2.y \/ expanded1.y > expanded2.bottom)
overlapXOf(expanded1, expanded2) ==
  MathMin(expanded1.right - expanded2.x, expanded2.right - expanded1.x)
\* variant: the vertical overlap is computed from the horizontal edges
overlapYOfFromX(expanded1, expanded2) ==
  MathMin(expanded1.right - expanded2.x, expanded2.right - expanded1.x)
overlapYOf(expanded1, expanded2) ==
  MathMin(expanded1.bottom - expanded2.y, expanded2.bottom - expanded1.y)

collisionOf(expanded1, expanded2, distance) ==
  IF ~overlapping(expanded1, expanded2)
  THEN [colliding |-> FALSE, overlapX |-> 0, overlapY |-> 0, distance |-> Num(distance)]
  ELSE [colliding |-> TRUE, overlapX |-> overlapXOf(expanded1, expanded2),
        overlapY |-> overlapYOf(expanded1, expanded2), distance |-> Num(distance)]

\* variant: the rectangles are shrunk by the padding instead of expanded
boundsCollisionShrunk(bounds1, bounds2, padding) ==
  collisionOf(expand(bounds1, 0 - Quot(padding, 2)), expand(bounds2, 0 - Quot(padding, 2)),
              centerDistance(bounds1, bounds2))
boundsCollision(bounds1, bounds2, padding) ==
  collisionOf(expand(bounds1, Quot(padding, 2)), expand(bounds2, Quot(padding, 2)),
              centerDistance(bounds1, bounds2))

\* variant: the parents are not compared
sameParentUnchecked(node1, node2) == TRUE
sameParent(node1, node2) == node1.parentNode = node2.parentNode

checkCollision(node1, node2, padding) ==
  IF ~sameParent(node1, node2)
  THEN [colliding |-> FALSE, overlapX |-> 0, overlapY |-> 0, distance |-> Infinity]
  ELSE boundsCollision(getNodeBounds(node1), getNodeBounds(node2), padding)

(***************************************************************************)
(* calculateRepulsionForce.  random is the value Math.random() returned,   *)
(* as a ratio scaled by ONE; it is read only when the centers coincide.    *)
(***************************************************************************)
ForceDamping == 8
RandomPush == 30

ZeroForce == [deltaX |-> 0, deltaY |-> 0, strength |-> 0]

\* variant: one factor of the smoothstep is missing
smoothstepMissingFactor(normalizedOverlap) ==
  Scale(normalizedOverlap, 3 * ONE - 2 * normalizedOverlap)
\* normalizedOverlap * normalizedOverlap * (3 - 2 * normalizedOverlap)
smoothstep(normalizedOverlap) ==
  Scale(Scale(normalizedOverlap, normalizedOverlap), 3 * ONE - 2 * normalizedOverlap)
maxDimensionOf(expanded1, expanded2) ==
  MathMax(MathMax(expanded1.width, expanded1.height),
          MathMax(expanded2.width, expanded2.height))
\* variant: the push is not scaled to 30
randomForceUnscaled(angle) ==
  [deltaX |-> Scale(PX, MathCos(angle)), deltaY |-> Scale(PX, MathSin(angle)), strength |-> ONE]
\* the push in a random direction for coinciding centers
randomForce(angle) ==
  [deltaX |-> Scale(Px(RandomPush), MathCos(angle)),
   deltaY |-> Scale(Px(RandomPush), MathSin(angle)),
   strength |-> ONE]
\* variant: the horizontal direction loses its sign
centerDxUnsigned(bounds1, bounds2) == Abs(bounds1.centerX - bounds2.centerX)
\* the direction (dx, dy) from the other center to the dragged one
centerDx(bounds1, bounds2) == bounds1.centerX - bounds2.centerX
centerDy(bounds1, bounds2) == bounds1.centerY - bounds2.centerY
\* variant: the force is the full overlap
directedForceUndamped(dx, dy, distance, minOverlap, maxDimension) ==
  [deltaX |-> Scale(minOverlap, Quot(dx * ONE, distance)),
   deltaY |-> Scale(minOverlap, Quot(dy * ONE, distance)),
   strength |-> smoothstep(MathMin(Quot(minOverlap * ONE, maxDimension), ONE))]
\* lines 945-967
directedForce(dx, dy, distance, minOverlap, maxDimension) ==
  [deltaX |-> Scale(Quot(minOverlap * ForceDamping, 10), Quot(dx * ONE, distance)),
   deltaY |-> Scale(Quot(minOverlap * ForceDamping, 10), Quot(dy * ONE, distance)),
   strength |-> smoothstep(MathMin(Quot(minOverlap * ONE, maxDimension), ONE))]
\* variant: the random push is taken whatever the distance
overlapForceAlwaysRandom(dx, dy, distance, minOverlap, maxDimension, random) ==
  randomForce(Quot(Quot(2 * MathPI, 100) * random, 100))
\* lines 920-967
overlapForce(dx, dy, distance, minOverlap, maxDimension, random) ==
  IF distance = 0
  THEN randomForce(Quot(Quot(2 * MathPI, 100) * random, 100))
  ELSE directedForce(dx, dy, distance, minOverlap, maxDimension)
\* variant: no early return for zones that do not overlap
zoneForceUnchecked(expanded1, expanded2, dx, dy, random) ==
  overlapForce(dx, dy, Distance(dx, dy),
               MathMin(overlapXOf(expanded1, expanded2), overlapYOf(expanded1, expanded2)),
               maxDimensionOf(expanded1, expanded2), random)
\* lines 907-967
zoneForce(expanded1, expanded2, dx, dy, random) ==
  IF ~overlapping(expanded1, expanded2) THEN ZeroForce
  ELSE overlapForce(dx, dy, Distance(dx, dy),
                    MathMin(overlapXOf(expanded1, expanded2), overlapYOf(expanded1, expanded2)),
                    maxDimensionOf(expanded1, expanded2), random)
\* variant: the zones are the rectangles themselves
boundsForceUnpadded(bounds1, bounds2, padding, random) ==
  zoneForce(expand(bounds1, 0), expand(bounds2, 0),
            centerDx(bounds1, bounds2), centerDy(bounds1, bounds2), random)
\* lines 882-967
boundsForce(bounds1, bounds2, padding, random) ==
  zoneForce(expand(bounds1, padding), expand(bounds2, padding),
            centerDx(bounds1, bounds2), centerDy(bounds1, bounds2), random)

calculateRepulsionForce(draggedNode, otherNode, random) ==
  IF ~sameParent(draggedNode, otherNode) THEN ZeroForce
  ELSE boundsForce(getNodeBounds(draggedNode), getNodeBounds(otherNode),
                   calculateAdaptivePadding(draggedNode, otherNode), random)

(***************************************************************************)
(* findValidPosition: the filter, the bounds helper, the collision loops,  *)
(* the spiral candidates and the clamp of the fallback                     *)
(***************************************************************************)
Null == [t |-> "null"]
District(w, h) == [t |-> "object", style |-> [width |-> w, height |-> h]]

DefaultDistrictWidth == 1200
DefaultDistrictHeight == 1000
maxRadius == 2000
maxIterations == 100

\* variant: districts are kept among the peers
isOtherNodeAnyType(node, n) == n.id # node.id /\ n.parentNode = node.parentNode
\* n.id !== node.id && n.type !== 'district' && n.parentNode === node.parentNode
isOtherNode(node, n) == n.id # node.id /\ n.type # "district" /\ n.parentNode = node.parentNode
\* allNodes.filter(...)
otherNodesOf(node, allNodes) ==
  LET keep(n) == isOtherNode(node, n) IN SelectSeq(allNodes, keep)

\* district.style?.width || 1200, district.style?.height || 1000
districtWidthOf(district) ==
  IF Truthy(district.style.width) THEN district.style.width.v ELSE Px(DefaultDistrictWidth)
districtHeightOf(district) ==
  IF Truthy(district.style.height) THEN district.style.height.v ELSE Px(DefaultDistrictHeight)

\* variant: the edge padding is left out of the test
isWithinDistrictBoundsNoPadding(pos, nodeBounds, district, padding) ==
  IF district = Null THEN TRUE
  ELSE /\ pos.x >= 0
       /\ pos.y >= 0
       /\ pos.x + nodeBounds.width <= districtWidthOf(district)
       /\ pos.y + nodeBounds.height <= districtHeightOf(district)
isWithinDistrictBounds(pos, nodeBounds, district, padding) ==
  IF district = Null THEN TRUE
  ELSE /\ pos.x >= padding
       /\ pos.y >= padding
       /\ pos.x + nodeBounds.width <= districtWidthOf(district) - padding
       /\ pos.y + nodeBounds.height <= districtHeightOf(district) - padding

\* { ...node, position: pos }
WithPosition(node, pos) == [node EXCEPT !.position = pos]

\* variant: the peers are tested without padding
collidesWithAnyUnpadded(testNode, otherNodes) ==
  \E k \in 1..Len(otherNodes) : checkCollision(testNode, otherNodes[k], 0).colliding
\* the loop over otherNodes that stops at the first colliding one
collidesWithAny(testNode, otherNodes) ==
  \E k \in 1..Len(otherNodes) :
    checkCollision(testNode, otherNodes[k],
                   calculateAdaptivePadding(testNode, otherNodes[k])).colliding

\* variant: the collision loop of the preferred position is left out
hasCollisionAtBoundsOnly(node, otherNodes, preferredPosition, nodeBounds, district, padding) ==
  ~isWithinDistrictBounds(preferredPosition, nodeBounds, district, padding)
\* variant: the search is forced for every preferred position
hasCollisionAtForced(node, otherNodes, preferredPosition, nodeBounds, district, padding) == TRUE
\* hasCollision after the check of the preferred position
hasCollisionAt(node, otherNodes, preferredPosition, nodeBounds, district, padding) ==
  IF ~isWithinDistrictBounds(preferredPosition, nodeBounds, district, padding) THEN TRUE
  ELSE collidesWithAny(WithPosition(node, preferredPosition), otherNodes)

\* Math.max(nodeBounds.width, nodeBounds.height) * 0.1
stepSizeOf(nodeBounds) == Quot(MathMax(nodeBounds.width, nodeBounds.height), 10)
angleStep == MathPI \div 8
positionsPerRadius == (2 * MathPI) \div angleStep

\* (i * angleStep) + (radius / stepSize) * 0.5, in micro-radians
spiralAngle(radius, stepSize, i) == i * angleStep + Quot(radius * 100, stepSize) * 5000
positionAt(preferredPosition, radius, angle) ==
  [x |-> preferredPosition.x + Scale(radius, MathCos(angle)),
   y |-> preferredPosition.y + Scale(radius, MathSin(angle))]
\* testPos of the spiral at a radius and a direction index
spiralPosition(preferredPosition, radius, stepSize, i) ==
  positionAt(preferredPosition, radius, spiralAngle(radius, stepSize, i))

\* variant: a candidate within the district is taken without the collision loop
candidateValidBoundsOnly(node, otherNodes, testPos, nodeBounds, district, padding) ==
  isWithinDistrictBounds(testPos, nodeBounds, district, padding)
\* valid after the bounds check and the collision loop of one candidate
candidateValid(node, otherNodes, testPos, nodeBounds, district, padding) ==
  /\ isWithinDistrictBounds(testPos, nodeBounds, district, padding)
  /\ ~collidesWithAny(WithPosition(node, testPos), otherNodes)

\* variant: the lower edge is not enforced
clampUpperOnly(preferred, districtSize, nodeSize, padding) ==
  MathMin(preferred, districtSize - nodeSize - padding)
\* Math.max(padding, Math.min(preferred, districtSize - nodeSize - padding))
clamp(preferred, districtSize, nodeSize, padding) ==
  MathMax(padding, MathMin(preferred, districtSize - nodeSize - padding))
\* variant: the preferred position is returned as it is
fallbackPositionUnclamped(preferredPosition, nodeBounds, district, padding) == preferredPosition
\* the position returned when the search found nothing
fallbackPosition(preferredPosition, nodeBounds, district, padding) ==
  IF district # Null
  THEN [x |-> clamp(preferredPosition.x, districtWidthOf(district), nodeBounds.width, padding),
        y |-> clamp(preferredPosition.y, districtHeightOf(district), nodeBounds.height, padding)]
  ELSE preferredPosition

(***************************************************************************)
(* findValidPosition as a function of its arguments                        *)
(***************************************************************************)
\* the direction indices of one radius whose candidate is valid
validIndices(node, otherNodes, preferredPosition, nodeBounds, district, padding, radius) ==
  {k \in 0..(MathMin(positionsPerRadius, maxIterations) - 1) :
     candidateValid(node, otherNodes,
                    spiralPosition(preferredPosition, radius, stepSizeOf(nodeBounds), k),
                    nodeBounds, district, padding)}
firstIndex(indices) == CHOOSE k \in indices : \A j \in indices : k <= j

\* the two loops from a radius on, and the fallback after them
RECURSIVE spiralSearch(_, _, _, _, _, _, _)
spiralSearch(node, otherNodes, preferredPosition, nodeBounds, district, padding, radius) ==
  IF ~(radius < Px(maxRadius))
  THEN fallbackPosition(preferredPosition, nodeBounds, district, padding)
  ELSE IF validIndices(node, otherNodes, preferredPosition, nodeBounds, district, padding,
                       radius) # {}
  THEN spiralPosition(preferredPosition, radius, stepSizeOf(nodeBounds),
                      firstIndex(validIndices(node, otherNodes, preferredPosition, nodeBounds,
                                              district, padding, radius)))
  ELSE spiralSearch(node, otherNodes, preferredPosition, nodeBounds, district, padding,
                    radius + stepSizeOf(nodeBounds))

\* the call after the filter and the computation of nodeBounds
placeAmong(node, otherNodes, preferredPosition, nodeBounds, district, padding) ==
  IF ~hasCollisionAt(node, otherNodes, preferredPosition, nodeBounds, district, padding)
  THEN preferredPosition
  ELSE spiralSearch(node, otherNodes, preferredPosition, nodeBounds, district, padding,
                    stepSizeOf(nodeBounds))

findValidPosition(node, allNodes, preferredPosition, district, padding) ==
  placeAmong(node, otherNodesOf(node, allNodes), preferredPosition,
             getNodeBounds(WithPosition(node, preferredPosition)), district, padding)

(***************************************************************************)
(* State: the arguments of the call in progress, the position in it, and   *)
(* what it returned.  retAgain is what a second invocation with the same   *)
(* arguments returned.                                                     *)
(***************************************************************************)
VARIABLES pc, op, node1, node2, paddingArg,
          node, allNodes, preferredPosition, district, padding,
          radius, i, ret, retAgain

pairVars == <<node1, node2, paddingArg>>
placeVars == <<node, allNodes, preferredPosition, district, padding>>
vars == <<pc, op, node1, node2, paddingArg, node, allNodes, preferredPosition, district,
          padding, radius, i, ret, retAgain>>

\* bounds of the inputs
MaxGrid == 3
GridStep == 95
RandomSteps == 5
MaxPeers == 2
MaxPref == 1
PrefStep == 130
MaxPlaced == 3

Node(id, type, x, y, style, data, parentNode) ==
  [id |-> id, type |-> type, position |-> [x |-> x, y |-> y], style |-> style,
   data |-> data, parentNode |-> parentNode]
NoSize == [width |-> Undefined, height |-> Undefined]
NumSize(w, h) == [width |-> Num(Px(w)), height |-> Num(Px(h))]
NoNode == Node("none", "default", 0, 0, NoSize, NoSize, "null")
None == [t |-> "none"]

Grid == {Px(g * GridStep) : g \in (0 - MaxGrid)..MaxGrid}
Randoms == {Quot(r * ONE, RandomSteps) : r \in 0..(RandomSteps - 1)}

\* the dragged / first node of a pair call
FirstNodes ==
  {Node("a", "note", 0, 0, style, NoSize, parentNode) :
     style \in {NoSize, NumSize(300, 100), NumSize(1000, 800)}, parentNode \in {"null", "d1"}}
\* sizes given in full, in part, as a string, or not at all: type, style, data
SizeConfigs ==
  {<<"note", NoSize, NoSize>>, <<"action", NoSize, NoSize>>,
   <<"note", NumSize(300, 100), NoSize>>, <<"mystery", NoSize, NumSize(120, 120)>>,
   <<"note", NumSize(800, 600), NoSize>>, <<"note", NumSize(900, 700), NoSize>>,
   <<"note", [width |-> Num(Px(300)), height |-> Undefined], NoSize>>,
   <<"task", NoSize, [width |-> Str, height |-> Num(Px(120))]>>}
\* positions off the grid: far away, overlapping by a few pixels, and at the
\* distance of a padding to the right of and below a default note at the origin
Spots == {<<500, 500>>, <<190, 10>>, <<220, 0>>, <<0, 250>>}
\* the other / second node of a pair call
SecondNodes ==
  {Node("b", sz[1], x, y, sz[2], sz[3], parentNode) :
     sz \in SizeConfigs, x \in Grid, y \in Grid,
     parentNode \in {"null", "undefined", "d1", "d2"}}
  \cup {Node("b", "note", Px(at[1]), Px(at[2]), style, NoSize, "d1") :
          at \in Spots, style \in {NoSize, NumSize(200, 150)}}
PaddingArgs(n1, n2) == {0, Px(MinPadding), calculateAdaptivePadding(n1, n2), Px(MaxPadding)}

IdlePlace ==
  /\ node = NoNode /\ allNodes = <<>> /\ preferredPosition = [x |-> 0, y |-> 0]
  /\ district = Null /\ padding = 0 /\ radius = 0 /\ i = 0

InitPair ==
  /\ pc = "idle" /\ op = "none"
  /\ node1 \in FirstNodes /\ node2 \in SecondNodes
  /\ paddingArg = 0
  /\ ret = None /\ retAgain = None
  /\ IdlePlace

\* a caller computes the padding of the pair
CallAdaptivePadding ==
  /\ pc = "idle"
  /\ pc' = "returned" /\ op' = "calculateAdaptivePadding"
  /\ ret' = calculateAdaptivePadding(node1, node2)
  /\ retAgain' = calculateAdaptivePadding(node1, node2)
  /\ UNCHANGED <<pairVars, placeVars, radius, i>>

\* a caller tests the pair for a collision under some padding
CallCheckCollision ==
  /\ pc = "idle"
  /\ \E p \in PaddingArgs(node1, node2) :
       /\ paddingArg' = p
       /\ ret' = checkCollision(node1, node2, p)
       /\ retAgain' = checkCollision(node1, node2, p)
  /\ pc' = "returned" /\ op' = "checkCollision"
  /\ UNCHANGED <<node1, node2, placeVars, radius, i>>

\* the drag loop asks for the force between the dragged node and a neighbour;
\* each invocation draws its own Math.random()
CallRepulsionForce ==
  /\ pc = "idle"
  /\ \E r1 \in Randoms, r2 \in Randoms :
       /\ ret' = calculateRepulsionForce(node1, node2, r1)
       /\ retAgain' = calculateRepulsionForce(node1, node2, r2)
  /\ pc' = "returned" /\ op' = "calculateRepulsionForce"
  /\ UNCHANGED <<pairVars, placeVars, radius, i>>

\* a caller asks for the rectangle of a node
CallGetNodeBounds ==
  /\ pc = "idle"
  /\ pc' = "returned" /\ op' = "getNodeBounds"
  /\ ret' = getNodeBounds(node2)
  /\ retAgain' = getNodeBounds(node2)
  /\ UNCHANGED <<pairVars, placeVars, radius, i>>

NextPair ==
  CallGetNodeBounds \/ CallAdaptivePadding \/ CallCheckCollision \/ CallRepulsionForce

SpecPair == InitPair /\ [][NextPair]_vars

(***************************************************************************)
(* findValidPosition, one step per loop iteration                          *)
(***************************************************************************)
\* the node to place: its own position is replaced by the tested one
PlacedNode(type) == Node("n", type, 0, 0, NoSize, NoSize, "d1")
\* the nodes of the canvas a call may be given
Catalog ==
  <<Node("p1", "note", 0, 0, NoSize, NoSize, "d1"),
    Node("p2", "task", Px(3 * PrefStep), Px(PrefStep), NoSize, NoSize, "d1"),
    Node("z", "district", 0, 0, NumSize(600, 400), NoSize, "d1"),
    Node("q", "note", 0, 0, NoSize, NoSize, "d2"),
    Node("n", "note", 0, 0, NoSize, NoSize, "d1")>>
\* a node that covers every candidate of the spiral
Giant == Node("g", "note", Px(0 - 2300), Px(0 - 2300), NumSize(5000, 5000), NoSize, "d1")

RECURSIVE SeqOfSet(_)
SeqOfSet(S) ==
  IF S = {} THEN <<>>
  ELSE LET m == CHOOSE k \in S : \A j \in S : k <= j
       IN <<Catalog[m]>> \o SeqOfSet(S \ {m})
PeerLists == {SeqOfSet(S) : S \in {T \in SUBSET (1..Len(Catalog)) : Cardinality(T) <= MaxPeers}}
PrefGrid == {[x |-> Px(gx * PrefStep), y |-> Px(gy * PrefStep)] : gx \in 0..MaxPref, gy \in 0..MaxPref}
DefaultEdgePadding == 50

Input(n, all, pref, d, p) ==
  [node |-> n, allNodes |-> all, preferredPosition |-> pref, district |-> d, padding |-> p]
\* calls on an ordinary canvas, with and without a district of the default size
OpenInputs ==
  {Input(PlacedNode("note"), all, pref, d, Px(DefaultEdgePadding)) :
     all \in PeerLists, pref \in PrefGrid, d \in {Null, District(Undefined, Undefined)}}
\* calls on a canvas that a single node covers
CoveredInputs ==
  {Input(PlacedNode(type), <<Giant>>, [x |-> 0, y |-> 0], d, Px(DefaultEdgePadding)) :
     type \in {"note", "timeline"}, d \in {Null, District(Undefined, Undefined)}}
\* calls with a district the node fits exactly or not at all
TightInputs ==
  {Input(PlacedNode("note"), all, pref, d, Px(DefaultEdgePadding)) :
     all \in {<<>>, <<Catalog[1]>>},
     pref \in {[x |-> 0, y |-> 0], [x |-> Px(PrefStep), y |-> Px(PrefStep)]},
     d \in {District(Num(Px(300)), Num(Px(250))), District(Num(Px(200)), Num(Px(200)))}}
PlaceInputs == OpenInputs \cup CoveredInputs \cup TightInputs

\* the bounds and the step the call computes once, before the loops
nodeBoundsOfCall == getNodeBounds(WithPosition(node, preferredPosition))
stepSize == stepSizeOf(nodeBoundsOfCall)
otherNodes == otherNodesOf(node, allNodes)

InitPlace ==
  /\ pc = "start" /\ op = "findValidPosition"
  /\ \E in \in PlaceInputs :
       /\ node = in.node /\ allNodes = in.allNodes
       /\ preferredPosition = in.preferredPosition
       /\ district = in.district /\ padding = in.padding
  /\ radius = 0 /\ i = 0
  /\ ret = None /\ retAgain = None
  /\ node1 = NoNode /\ node2 = NoNode /\ paddingArg = 0

\* lines 1003-1030: the check of the preferred position
CheckPreferred ==
  /\ pc = "start"
  /\ IF hasCollisionAt(node, otherNodes, preferredPosition, nodeBoundsOfCall, district, padding)
     THEN /\ pc' = "spiral" /\ radius' = stepSize /\ i' = 0
          /\ UNCHANGED ret
     ELSE /\ pc' = "returned" /\ ret' = preferredPosition
          /\ UNCHANGED <<radius, i>>
  /\ UNCHANGED <<op, pairVars, placeVars, retAgain>>

\* variant: the candidate is written into the node instead of a copy of it
ProbeInPlace ==
  /\ pc = "spiral"
  /\ radius < Px(maxRadius)
  /\ i < positionsPerRadius /\ i < maxIterations
  /\ LET testPos == spiralPosition(preferredPosition, radius, stepSize, i)
     IN /\ node' = WithPosition(node, testPos)
        /\ IF candidateValid(node, otherNodes, testPos, nodeBoundsOfCall, district, padding)
           THEN /\ pc' = "returned" /\ ret' = testPos
                /\ UNCHANGED <<radius, i>>
           ELSE /\ i' = i + 1
                /\ UNCHANGED <<pc, radius, ret>>
  /\ UNCHANGED <<op, pairVars, allNodes, preferredPosition, district, padding, retAgain>>
\* one iteration of the inner loop: test one candidate
Probe ==
  /\ pc = "spiral"
  /\ radius < Px(maxRadius)
  /\ i < positionsPerRadius /\ i < maxIterations
  /\ LET testPos == spiralPosition(preferredPosition, radius, stepSize, i)
     IN IF candidateValid(node, otherNodes, testPos, nodeBoundsOfCall, district, padding)
        THEN /\ pc' = "returned" /\ ret' = testPos
             /\ UNCHANGED <<radius, i>>
        ELSE /\ i' = i + 1
             /\ UNCHANGED <<pc, radius, ret>>
  /\ UNCHANGED <<op, pairVars, placeVars, retAgain>>

\* variant: the radius is not advanced
NextRadiusStuck ==
  /\ pc = "spiral"
  /\ radius < Px(maxRadius)
  /\ ~(i < positionsPerRadius /\ i < maxIterations)
  /\ radius' = radius /\ i' = 0
  /\ UNCHANGED <<pc, op, pairVars, placeVars, ret, retAgain>>
\* variant: the radius is doubled
NextRadiusDoubling ==
  /\ pc = "spiral"
  /\ radius < Px(maxRadius)
  /\ ~(i < positionsPerRadius /\ i < maxIterations)
  /\ radius' = radius * 2 /\ i' = 0
  /\ UNCHANGED <<pc, op, pairVars, placeVars, ret, retAgain>>
\* the inner loop ended: radius += stepSize
NextRadius ==
  /\ pc = "spiral"
  /\ radius < Px(maxRadius)
  /\ ~(i < positionsPerRadius /\ i < maxIterations)
  /\ radius' = radius + stepSize /\ i' = 0
  /\ UNCHANGED <<pc, op, pairVars, placeVars, ret, retAgain>>

\* the outer loop ended: lines 1069-1081
Fallback ==
  /\ pc = "spiral"
  /\ ~(radius < Px(maxRadius))
  /\ pc' = "returned"
  /\ ret' = fallbackPosition(preferredPosition, nodeBoundsOfCall, district, padding)
  /\ UNCHANGED <<op, pairVars, placeVars, radius, i, retAgain>>

NextPlace == CheckPreferred \/ Probe \/ NextRadius \/ Fallback

SpecPlace == InitPlace /\ [][NextPlace]_vars

(***************************************************************************)
(* A placement routine: nodes are added to a parent one at a time, each at *)
(* the position findValidPosition returned against the nodes placed so     *)
(* far.  The routine stops after a call that returned by the fallback.     *)
(***************************************************************************)
LayoutIds == <<"e1", "e2", "e3", "e4", "e5", "e6">>
LayoutTypes == {"note", "district"}
LayoutPrefs == {[x |-> 0, y |-> 0], [x |-> Px(PrefStep), y |-> Px(PrefStep)]}
\* the k-th node to add; a district node carries its size in style
LayoutNode(k, type) ==
  Node(LayoutIds[k], type, 0, 0, IF type = "district" THEN NumSize(300, 200) ELSE NoSize,
       NoSize, "d1")

InitLayout ==
  /\ pc = "start" /\ op = "findValidPosition"
  /\ allNodes = <<>>
  /\ \E type \in LayoutTypes : node = LayoutNode(1, type)
  /\ preferredPosition \in LayoutPrefs
  /\ district \in {Null, District(Undefined, Undefined), District(Num(Px(300)), Num(Px(250)))}
  /\ padding = Px(DefaultEdgePadding)
  /\ radius = 0 /\ i = 0
  /\ ret = None /\ retAgain = None
  /\ node1 = NoNode /\ node2 = NoNode /\ paddingArg = 0

\* the routine puts the node at the returned position and places the next one
Commit ==
  /\ pc = "returned" /\ radius < Px(maxRadius)
  /\ Len(allNodes) + 1 < MaxPlaced
  /\ allNodes' = Append(allNodes, WithPosition(node, ret))
  /\ \E type \in LayoutTypes : node' = LayoutNode(Len(allNodes) + 2, type)
  /\ preferredPosition' \in LayoutPrefs
  /\ pc' = "start" /\ radius' = 0 /\ i' = 0 /\ ret' = None
  /\ UNCHANGED <<op, pairVars, district, padding, retAgain>>

NextLayout == NextPlace \/ Commit

SpecLayout == InitLayout /\ [][NextLayout]_vars

(***************************************************************************)
(* A drag loop: the dragged node is held where it is, and on every frame   *)
(* the force between it and a neighbour is computed and added to the       *)
(* neighbour's position.  ret is the force of the last frame.              *)
(***************************************************************************)
\* the neighbour at the start of the drag: in the zone of the dragged node, with
\* another center
DragStarts ==
  {n \in SecondNodes :
     /\ n.parentNode = "d1" /\ n.style = NoSize /\ n.data = NoSize
     /\ calculateRepulsionForce(Node("a", "note", 0, 0, NoSize, NoSize, "d1"), n, 0) # ZeroForce
     /\ getNodeBounds(n).centerX # Px(100) \/ getNodeBounds(n).centerY # Px(75)}

InitDrag ==
  /\ pc = "frame" /\ op = "calculateRepulsionForce"
  /\ node1 = Node("a", "note", 0, 0, NoSize, NoSize, "d1")
  /\ node2 \in DragStarts
  /\ paddingArg = 0
  /\ ret = None /\ retAgain = None
  /\ IdlePlace

\* a frame begins: the loop asks for the force on the neighbour
FrameForce ==
  /\ pc = "frame"
  /\ \E r \in Randoms : ret' = calculateRepulsionForce(node1, node2, r)
  /\ pc' = "apply"
  /\ UNCHANGED <<op, pairVars, placeVars, radius, i, retAgain>>

\* the frame ends: the loop adds the force to the neighbour's position
FrameApply ==
  /\ pc = "apply"
  /\ node2' = WithPosition(node2, [x |-> node2.position.x + ret.deltaX,
                                    y |-> node2.position.y + ret.deltaY])
  /\ pc' = "frame"
  /\ UNCHANGED <<op, node1, paddingArg, placeVars, radius, i, ret, retAgain>>

NextDrag == FrameForce \/ FrameApply

SpecDrag == InitDrag /\ [][NextDrag]_vars
\* the loop runs on every frame: a frame that can begin begins, a force that was
\* computed is applied (the steps from "frame" to "apply" are those of
\* FrameForce, the steps back those of FrameApply)
SpecDragFair ==
  /\ SpecDrag
  /\ WF_pc(pc = "frame" /\ pc' = "apply")
  /\ WF_pc(pc = "apply" /\ pc' = "frame")

(***************************************************************************)
(* All the operations of the engine                                        *)
(***************************************************************************)
InitEngine == InitPair \/ InitPlace
NextEngine == NextPair \/ NextPlace
SpecEngine == InitEngine /\ [][NextEngine]_vars

(***************************************************************************)
(* Properties of the pair operations (SpecPair)                            *)
(***************************************************************************)
Returned(o) == pc = "returned" /\ op = o
B1 == getNodeBounds(node1)
B2 == getNodeBounds(node2)
\* the free space between the two unexpanded rectangles along each axis
GapX == MathMax(B2.x - B1.right, B1.x - B2.right)
GapY == MathMax(B2.y - B1.bottom, B1.y - B2.bottom)
\* the rectangles expanded by the full adaptive padding on every side are disjoint
ZonesApart ==
  \/ GapX > 2 * calculateAdaptivePadding(node1, node2)
  \/ GapY > 2 * calculateAdaptivePadding(node1, node2)
SameCenter == B1.centerX = B2.centerX /\ B1.centerY = B2.centerY
SameRectangle == B1 = B2

\* C1: nodes with different parentNode never interact, whatever their rectangles
\* and the padding: checkCollision returns {false, 0, 0, Infinity} and
\* calculateRepulsionForce returns {0, 0, 0}.
C1_CrossContainer ==
  (pc = "returned" /\ node1.parentNode # node2.parentNode) =>
    /\ op = "checkCollision" =>
         ret = [colliding |-> FALSE, overlapX |-> 0, overlapY |-> 0, distance |-> Infinity]
    /\ op = "calculateRepulsionForce" => ret = ZeroForce
\* a root node and a node of a district with the same rectangle, tested with padding
C1_Witness ==
  /\ Returned("checkCollision") /\ paddingArg > 0
  /\ node1.parentNode = "null" /\ node2.parentNode = "d1" /\ SameRectangle

\* C6 (as claimed): for overlapping zones and distinct centers the returned offset
\* points from the dragged center toward the other center, and adding it to the
\* other node's position does not bring the two centers closer.
C6_OffsetPushesOtherAway ==
  (Returned("calculateRepulsionForce") /\ sameParent(node1, node2)
     /\ ~ZonesApart /\ ~SameCenter) =>
    /\ ret.deltaX * (B2.centerX - B1.centerX) + ret.deltaY * (B2.centerY - B1.centerY) >= 0
    /\ centerDistance(B1, boundsOf(B2.x + ret.deltaX, B2.y + ret.deltaY, B2.width, B2.height))
         >= centerDistance(B1, B2)

\* C7: same-parent nodes whose rectangles expanded by the full adaptive padding do
\* not overlap get exactly the zero force.
C7_ZeroOutsideZone ==
  (Returned("calculateRepulsionForce") /\ sameParent(node1, node2) /\ ZonesApart) =>
    ret = ZeroForce
C7_Witness ==
  Returned("calculateRepulsionForce") /\ sameParent(node1, node2) /\ ZonesApart

\* C8: the strength is within [0, 1], and a non-zero component or strength is
\* returned only for same-parent nodes whose padded zones overlap.
C8_StrengthRange ==
  Returned("calculateRepulsionForce") =>
    /\ 0 <= ret.strength /\ ret.strength <= ONE
    /\ ret # ZeroForce => (sameParent(node1, node2) /\ ~ZonesApart)
C8_Witness ==
  /\ Returned("calculateRepulsionForce")
  /\ 2 * ret.strength > ONE /\ ret.strength < ONE
  /\ ret.deltaX # 0 /\ ret.deltaY # 0

\* C9 (as claimed): two invocations with equal arguments return equal results.
C9_Deterministic == pc = "returned" => ret = retAgain
\* C9 (amended): two invocations with equal arguments return equal results, except
\* calculateRepulsionForce for same-parent nodes with the same center, whose
\* direction is drawn at random (its strength is 1 in both).
C9_DeterministicButRandomPush ==
  pc = "returned" =>
    \/ ret = retAgain
    \/ /\ op = "calculateRepulsionForce" /\ sameParent(node1, node2) /\ SameCenter
       /\ ret.strength = ONE /\ retAgain.strength = ONE
C9_Witness ==
  Returned("calculateRepulsionForce") /\ SameCenter /\ ret # retAgain

\* C10: calculateAdaptivePadding(a, b) = calculateAdaptivePadding(b, a).
C10_PaddingSymmetric ==
  Returned("calculateAdaptivePadding") => ret = calculateAdaptivePadding(node2, node1)
\* two nodes of different sizes, padding strictly between the minimum and the maximum
C10_Witness ==
  /\ Returned("calculateAdaptivePadding")
  /\ B1.width # B2.width /\ B1.height # B2.height
  /\ ret > Px(MinPadding) /\ ret < Px(MaxPadding)

\* the sum of the four resolved dimensions of the pair
DimensionSum == B1.width + B1.height + B2.width + B2.height

\* C11: the padding is 20 + 0.1 * (the average of the four resolved dimensions),
\* clamped to [20, 100]: it lies within [20, 100], it is 100 exactly when the
\* average dimension is at least 800, and below the cap it is the unclamped value.
C11_PaddingFormula ==
  Returned("calculateAdaptivePadding") =>
    /\ Px(20) <= ret /\ ret <= Px(100)
    /\ ret = Px(100) <=> DimensionSum >= 4 * Px(800)
    /\ ret < Px(100) => 40 * ret = 40 * Px(20) + DimensionSum
\* the average dimension is exactly 800
C11_Witness ==
  Returned("calculateAdaptivePadding") /\ DimensionSum = 4 * Px(800) /\ ret = Px(100)

\* C12: a pair that does not collide under a padding does not collide under any
\* smaller padding.
C12_ShrinkingPaddingKeepsApart ==
  (Returned("checkCollision") /\ ~ret.colliding) =>
    \A p2 \in PaddingArgs(node1, node2) :
      p2 < paddingArg => ~checkCollision(node1, node2, p2).colliding
\* a same-parent pair apart under the minimum padding that collides under the maximum
C12_Witness ==
  /\ Returned("checkCollision") /\ sameParent(node1, node2)
  /\ paddingArg = Px(MinPadding) /\ ~ret.colliding
  /\ checkCollision(node1, node2, Px(MaxPadding)).colliding

\* a dimension is explicit when style or data hold a number for it
IsNumeric(v) == v.t = "number"
BothExplicit(n) ==
  /\ IsNumeric(n.style.width) \/ IsNumeric(n.data.width)
  /\ IsNumeric(n.style.height) \/ IsNumeric(n.data.height)
\* C14 (as claimed): unless both explicit dimensions are numeric, both the width
\* and the height of the bounds are those of the type default.
C14_AllOrNothing ==
  (Returned("getNodeBounds") /\ ~BothExplicit(node2)) =>
    /\ ret.width = getDefaultNodeSize(node2.type).width
    /\ ret.height = getDefaultNodeSize(node2.type).height

\* E1 at (0,0) and E2 at (500,500), both 200x150, same parent, padding 37.5
ScenarioB ==
  /\ B1 = boundsOf(0, 0, Px(200), Px(150))
  /\ B2 = boundsOf(Px(500), Px(500), Px(200), Px(150))
  /\ sameParent(node1, node2) /\ 2 * paddingArg = Px(75)
\* C15 (as claimed): in scenario B the pair does not collide and the distance of
\* the centers is 678.8, to half a pixel.
C15_ScenarioB ==
  (Returned("checkCollision") /\ ScenarioB) =>
    /\ ~ret.colliding
    /\ Abs(10 * ret.distance.v - Px(6788)) <= 5 * PX
\* C15 (amended): in scenario B the pair does not collide and the distance of the
\* centers, (100,75) and (600,575), is 707.1, to half a pixel.
C15_ScenarioBCenters ==
  (Returned("checkCollision") /\ ScenarioB) =>
    /\ ~ret.colliding
    /\ Abs(10 * ret.distance.v - Px(7071)) <= 5 * PX
C15_Witness == Returned("checkCollision") /\ ScenarioB /\ ret.distance # Infinity

\* the expanded rectangles share an edge: along one axis the free space between
\* the rectangles is exactly the padding, along the other they overlap
TouchingInX == GapX = 2 * Quot(paddingArg, 2) /\ GapY < 2 * Quot(paddingArg, 2)
TouchingInY == GapY = 2 * Quot(paddingArg, 2) /\ GapX < 2 * Quot(paddingArg, 2)
\* C19 (as claimed): same-parent nodes whose expanded rectangles touch exactly
\* along an edge are reported as not colliding.
C19_TouchingApart ==
  (Returned("checkCollision") /\ sameParent(node1, node2) /\ (TouchingInX \/ TouchingInY)) =>
    ~ret.colliding
\* C19 (amended): same-parent nodes whose expanded rectangles touch exactly along
\* an edge are reported as colliding, with an overlap of 0 along the axis of the
\* touch.
C19_TouchingCollides ==
  (Returned("checkCollision") /\ sameParent(node1, node2)) =>
    /\ TouchingInX => (ret.colliding /\ ret.overlapX = 0)
    /\ TouchingInY => (ret.colliding /\ ret.overlapY = 0)
\* a touch under a positive padding
C19_Witness ==
  /\ Returned("checkCollision") /\ sameParent(node1, node2) /\ paddingArg > 0
  /\ TouchingInX /\ ret.overlapY > 0

\* C20: for same-parent nodes the overlaps are the smaller of the two signed edge
\* differences of the rectangles expanded by padding / 2, both non-negative, when
\* colliding, and 0 otherwise; the distance is the Euclidean distance of the
\* unexpanded centers whatever the padding.
C20_OverlapAndDistance ==
  (Returned("checkCollision") /\ sameParent(node1, node2)) =>
    /\ ret.colliding =>
         /\ ret.overlapX = MathMin(B1.right - B2.x, B2.right - B1.x) + 2 * Quot(paddingArg, 2)
         /\ ret.overlapY = MathMin(B1.bottom - B2.y, B2.bottom - B1.y) + 2 * Quot(paddingArg, 2)
         /\ ret.overlapX >= 0 /\ ret.overlapY >= 0
    /\ ~ret.colliding => (ret.overlapX = 0 /\ ret.overlapY = 0)
    /\ ret.distance = Num(MathSqrt((B1.centerX - B2.centerX) * (B1.centerX - B2.centerX)
                                   + (B1.centerY - B2.centerY) * (B1.centerY - B2.centerY)))
    /\ \A p \in PaddingArgs(node1, node2) : checkCollision(node1, node2, p).distance = ret.distance
\* a collision under a positive padding with different overlaps along the axes
C20_Witness ==
  /\ Returned("checkCollision") /\ sameParent(node1, node2) /\ paddingArg > 0
  /\ ret.colliding /\ ret.overlapX > 0 /\ ret.overlapY > ret.overlapX /\ ~SameCenter

\* the overlaps of the zones (the rectangles expanded by the full adaptive
\* padding) and their largest dimension
ZonePadding == calculateAdaptivePadding(node1, node2)
ZoneOverlapX == MathMin(B1.right - B2.x, B2.right - B1.x) + 2 * ZonePadding
ZoneOverlapY == MathMin(B1.bottom - B2.y, B2.bottom - B1.y) + 2 * ZonePadding
ZoneMinOverlap == MathMin(ZoneOverlapX, ZoneOverlapY)
ZoneMaxDimension ==
  2 * ZonePadding + MathMax(MathMax(B1.width, B1.height), MathMax(B2.width, B2.height))
\* 0.8 * min(overlapX, overlapY)
DampedOverlap == (ZoneMinOverlap * 8) \div 10
\* the square of the length of the returned vector
LengthSquared == ret.deltaX * ret.deltaX + ret.deltaY * ret.deltaY
\* n * n * (3 - 2 * n) for n = min(minOverlap / maxDimension, 1)
NormalizedOverlap == MathMin((ZoneMinOverlap * ONE) \div ZoneMaxDimension, ONE)
ExpectedStrength ==
  (((NormalizedOverlap * NormalizedOverlap) \div ONE) * (3 * ONE - 2 * NormalizedOverlap))
    \div ONE
\* the case of C21: zones overlapping, centers different
InZone == sameParent(node1, node2) /\ ~ZonesApart /\ ~SameCenter

\* C21: for overlapping zones and different centers the returned vector is
\* parallel to the line of the centers (to the rounding of its components), its
\* length is 0.8 * min(overlapX, overlapY) of the zones (to 1 percent and a
\* pixel, the precision of the unit vector), never more than that minimum, and
\* the strength is the smoothstep of min(minOverlap / maxDimension, 1).
C21_ForceLength ==
  (Returned("calculateRepulsionForce") /\ InZone) =>
    /\ Abs(ret.deltaX * (B1.centerY - B2.centerY) - ret.deltaY * (B1.centerX - B2.centerX))
         <= (DampedOverlap \div ONE + 2)
              * (Abs(B1.centerX - B2.centerX) + Abs(B1.centerY - B2.centerY))
    /\ LengthSquared <= ((DampedOverlap * 101) \div 100 + PX) * ((DampedOverlap * 101) \div 100 + PX)
    /\ LengthSquared >= ((DampedOverlap * 99) \div 100 - PX) * ((DampedOverlap * 99) \div 100 - PX)
         \/ DampedOverlap <= 2 * PX
    /\ LengthSquared <= ZoneMinOverlap * ZoneMinOverlap
    /\ ret.strength = ExpectedStrength
\* a deep overlap of nodes of different sizes, off the axes
C21_Witness ==
  /\ Returned("calculateRepulsionForce") /\ InZone
  /\ B1.width # B2.width /\ ret.deltaX # 0 /\ ret.deltaY # 0
  /\ DampedOverlap > Px(100) /\ ret.strength > 0

\* C22: for same-parent nodes with the same center the strength is 1 and the
\* vector has length 30 (to a quarter of a pixel), whatever the direction drawn.
C22_RandomPush ==
  (Returned("calculateRepulsionForce") /\ sameParent(node1, node2) /\ SameCenter) =>
    /\ ret.strength = ONE
    /\ LengthSquared >= (Px(30) - 2) * (Px(30) - 2)
    /\ LengthSquared <= (Px(30) + 2) * (Px(30) + 2)
\* a push that is along neither axis
C22_Witness ==
  /\ Returned("calculateRepulsionForce") /\ sameParent(node1, node2) /\ SameCenter
  /\ ret.deltaX # 0 /\ ret.deltaY # 0 /\ Abs(ret.deltaX) # Abs(ret.deltaY)

\* C23: for same-parent nodes with different centers that collide under the
\* adaptive padding, the force is a non-zero vector with a positive strength.
C23_ZoneContainsCollision ==
  (Returned("calculateRepulsionForce") /\ sameParent(node1, node2) /\ ~SameCenter
     /\ checkCollision(node1, node2, calculateAdaptivePadding(node1, node2)).colliding) =>
    /\ ret.deltaX # 0 \/ ret.deltaY # 0
    /\ ret.strength > 0
\* a collision of the padded rectangles only: the rectangles themselves are apart
C23_Witness ==
  /\ Returned("calculateRepulsionForce") /\ sameParent(node1, node2) /\ ~SameCenter
  /\ checkCollision(node1, node2, calculateAdaptivePadding(node1, node2)).colliding
  /\ GapX > 0

\* a root node whose parentNode is null and one whose parentNode is missing,
\* with overlapping rectangles
RootPair ==
  /\ node1.parentNode = "null" /\ node2.parentNode = "undefined"
  /\ GapX < 0 /\ GapY < 0
\* C28 (as claimed): such a pair collides and gets a non-zero force.
C28_RootIsOneSpace ==
  (pc = "returned" /\ RootPair) =>
    /\ op = "checkCollision" => ret.colliding
    /\ op = "calculateRepulsionForce" => ret # ZeroForce

\* C29: for same-parent nodes with different centers the forces of the two
\* orders have the same strength and opposite vectors, and checkCollision
\* returns the same four fields in both orders.
C29_Antisymmetric ==
  /\ (Returned("calculateRepulsionForce") /\ sameParent(node1, node2) /\ ~SameCenter) =>
       \A r \in Randoms :
         calculateRepulsionForce(node2, node1, r) =
           [deltaX |-> 0 - ret.deltaX, deltaY |-> 0 - ret.deltaY, strength |-> ret.strength]
  /\ (Returned("checkCollision") /\ sameParent(node1, node2) /\ ~SameCenter) =>
       checkCollision(node2, node1, paddingArg) = ret
\* a force between nodes of different sizes, off the axes
C29_Witness ==
  /\ Returned("calculateRepulsionForce") /\ sameParent(node1, node2) /\ ~SameCenter
  /\ B1.width # B2.width /\ B1.height # B2.height
  /\ ret.deltaX > 0 /\ ret.deltaY < 0

(***************************************************************************)
(* Properties of findValidPosition (SpecPlace)                             *)
(***************************************************************************)
\* a peer: same parent, another id, not a district
IsPeer(n) == n.parentNode = node.parentNode /\ n.id # node.id /\ n.type # "district"
\* the node placed at pos collides with no peer under the padding of the pair
CollisionFreeAt(pos) ==
  \A k \in 1..Len(allNodes) :
    IsPeer(allNodes[k]) =>
      ~checkCollision(WithPosition(node, pos), allNodes[k],
                      calculateAdaptivePadding(WithPosition(node, pos), allNodes[k])).colliding
\* the rectangle of the node placed at pos lies within the padded district
InPaddedBounds(pos) ==
  \/ district = Null
  \/ /\ pos.x >= padding /\ pos.y >= padding
     /\ pos.x + getNodeBounds(node).width <= districtWidthOf(district) - padding
     /\ pos.y + getNodeBounds(node).height <= districtHeightOf(district) - padding
\* the preferred position clamped into the padded district (itself without district)
ClampedPreferred ==
  IF district = Null THEN preferredPosition
  ELSE [x |-> MathMax(padding, MathMin(preferredPosition.x,
                districtWidthOf(district) - getNodeBounds(node).width - padding)),
        y |-> MathMax(padding, MathMin(preferredPosition.y,
                districtHeightOf(district) - getNodeBounds(node).height - padding))]
\* the distance between the preferred position and pos
FromPreferred(pos) == Distance(pos.x - preferredPosition.x, pos.y - preferredPosition.y)

\* C2: the returned position is collision-free against every peer, or it is the
\* clamped preferred position.
C2_FreeOrClamped ==
  Returned("findValidPosition") => (CollisionFreeAt(ret) \/ ret = ClampedPreferred)
\* a position the spiral found around an occupied preferred position
C2_Witness ==
  /\ Returned("findValidPosition") /\ otherNodes # <<>>
  /\ ~CollisionFreeAt(preferredPosition)
  /\ ret # preferredPosition /\ ret # ClampedPreferred

\* the radii the outer loop has still to go through
RadiiLeft ==
  IF radius < Px(maxRadius) THEN (Px(maxRadius) - radius + stepSize - 1) \div stepSize ELSE 0
\* a bound on the number of steps the call has still to take
StepsLeft ==
  IF pc = "returned" THEN 0
  ELSE IF pc = "start" THEN 2 + (positionsPerRadius + 1) * (1 + Px(maxRadius) \div stepSize)
  ELSE 1 + RadiiLeft * (positionsPerRadius + 1) + (positionsPerRadius - i)

\* C3: every call terminates and returns a position {x, y}: the step of the spiral
\* is positive, the radius only grows, by that step, every step of the call
\* lowers the bound StepsLeft, which is never negative, and a radius at the cap
\* is followed by the return.
C3_Terminates ==
  /\ [](pc # "returned" => (stepSize > 0 /\ StepsLeft > 0))
  /\ [][StepsLeft' < StepsLeft]_vars
  /\ [][(pc = "spiral" /\ pc' = "spiral" /\ radius' # radius) =>
          radius' = radius + stepSize]_vars
  /\ [][(pc = "spiral" /\ radius >= Px(maxRadius)) => pc' = "returned"]_vars
  /\ [](pc = "returned" => DOMAIN ret = {"x", "y"})
\* a call that went through the whole spiral and returned by the fallback
C3_Witness ==
  Returned("findValidPosition") /\ radius >= Px(maxRadius)

\* C4 (as claimed): without any other node the call returns the preferred position,
\* clamped to the padded district if one is given.
C4_EmptyReturnsClamped ==
  (Returned("findValidPosition") /\ allNodes = <<>>) => ret = ClampedPreferred
\* C4 (amended): without any other node the call returns the preferred position if
\* there is no district or the position is within the padded district; otherwise
\* a spiral candidate within the padded district, less than maxRadius away, or,
\* when the spiral has none, the clamped preferred position.
C4_EmptyReturnsPreferredOrSearches ==
  (Returned("findValidPosition") /\ allNodes = <<>>) =>
    IF InPaddedBounds(preferredPosition) THEN ret = preferredPosition
    ELSE \/ InPaddedBounds(ret) /\ FromPreferred(ret) <= Px(maxRadius)
         \/ ret = ClampedPreferred /\ radius >= Px(maxRadius)
\* an out-of-bounds preferred position for which the spiral found a position
C4_Witness ==
  /\ Returned("findValidPosition") /\ allNodes = <<>> /\ district # Null
  /\ ~InPaddedBounds(preferredPosition)
  /\ InPaddedBounds(ret) /\ ret # ClampedPreferred

\* C5: a preferred position that is within the padded district (or without a
\* district) and collision-free against every peer is returned as it is, and the
\* spiral is never entered.
C5_ValidPreferredReturned ==
  (InPaddedBounds(preferredPosition) /\ CollisionFreeAt(preferredPosition)) =>
    /\ pc # "spiral"
    /\ pc = "returned" => (ret = preferredPosition /\ radius = 0)
\* a free preferred position inside a district, with peers around
C5_Witness ==
  /\ Returned("findValidPosition") /\ otherNodes # <<>> /\ district # Null
  /\ ret = preferredPosition

\* the call went through the whole spiral without a valid candidate
ByFallback == Returned("findValidPosition") /\ radius >= Px(maxRadius)
\* the node is not wider / higher than the district between its padded edges
FitsWidth == getNodeBounds(node).width <= districtWidthOf(district) - 2 * padding
FitsHeight == getNodeBounds(node).height <= districtHeightOf(district) - 2 * padding

\* C13 (as claimed): with a district, the fallback returns the clamped preferred
\* position and the node's rectangle there lies within the padded district,
\* whatever the sizes of the district and of the node.
C13_FallbackInBounds ==
  (ByFallback /\ district # Null) => (ret = ClampedPreferred /\ InPaddedBounds(ret))
\* C13 (amended): with a district, the fallback returns the clamped preferred
\* position; the node's rectangle there lies within the padded district when the
\* node fits between the padded edges, and on an axis where it does not fit the
\* coordinate is the edge padding and the rectangle passes the far padded edge.
C13_FallbackClamped ==
  (ByFallback /\ district # Null) =>
    /\ ret = ClampedPreferred
    /\ (FitsWidth /\ FitsHeight) => InPaddedBounds(ret)
    /\ ~FitsWidth =>
         (ret.x = padding /\ ret.x + getNodeBounds(node).width > districtWidthOf(district) - padding)
    /\ ~FitsHeight =>
         (ret.y = padding /\ ret.y + getNodeBounds(node).height > districtHeightOf(district) - padding)
\* a fallback in a district the node fits in, away from the preferred position
C13_Witness ==
  /\ ByFallback /\ district # Null /\ FitsWidth /\ FitsHeight
  /\ ret # preferredPosition /\ InPaddedBounds(ret)

\* a 200x150 node preferring (0,0), one peer at (0,0)-(200,150) in its parent, a
\* district of 1200x1000, edge padding 50
ScenarioC ==
  /\ getNodeBounds(node).width = Px(200) /\ getNodeBounds(node).height = Px(150)
  /\ preferredPosition = [x |-> 0, y |-> 0]
  /\ Len(allNodes) = 1 /\ IsPeer(allNodes[1])
  /\ getNodeBounds(allNodes[1]) = boundsOf(0, 0, Px(200), Px(150))
  /\ district # Null
  /\ districtWidthOf(district) = Px(1200) /\ districtHeightOf(district) = Px(1000)
  /\ padding = Px(50)
\* C16: in scenario C the returned position does not collide with the peer under
\* the padding 37.5 and keeps the node's rectangle within [50,1150] x [50,950].
C16_ScenarioC ==
  (Returned("findValidPosition") /\ ScenarioC) =>
    /\ ~checkCollision(WithPosition(node, ret), allNodes[1], Px(75) \div 2).colliding
    /\ Px(50) <= ret.x /\ ret.x + Px(200) <= Px(1150)
    /\ Px(50) <= ret.y /\ ret.y + Px(150) <= Px(950)
C16_Witness == Returned("findValidPosition") /\ ScenarioC /\ ret # preferredPosition

\* C17: no step of any operation changes the nodes, the node list, the preferred
\* position or the district it was given.
C17_InputsUnchanged ==
  [][/\ node1' = node1 /\ node2' = node2
     /\ node' = node /\ allNodes' = allNodes
     /\ preferredPosition' = preferredPosition /\ district' = district
     /\ padding' = padding]_vars
\* a call that tested candidates and returned one: the node still has its position
C17_Witness ==
  /\ Returned("findValidPosition") /\ allNodes # <<>>
  /\ ret # preferredPosition /\ ret # node.position /\ radius > stepSize

\* the elements of the list that are peers
Peers == SelectSeq(allNodes, IsPeer)
\* nodes that are not peers, at the position pos: in another parent or at the
\* root, of the district type, or with the id of the node itself
Strangers(pos) ==
  {Node("s", "note", pos.x, pos.y, NoSize, NoSize, "d2"),
   Node("s", "note", pos.x, pos.y, NoSize, NoSize, "null"),
   Node("s", "district", pos.x, pos.y, NumSize(600, 400), NoSize, node.parentNode),
   Node(node.id, "note", pos.x, pos.y, NoSize, NoSize, node.parentNode)}
\* C18: the returned position is the one returned for the list of the peers alone
\* (every non-peer removed), and the one returned for the list with a non-peer
\* added, even when that non-peer lies exactly at the returned position.
C18_OnlyPeersCount ==
  Returned("findValidPosition") =>
    /\ ret = findValidPosition(node, Peers, preferredPosition, district, padding)
    /\ \A e \in Strangers(ret) :
         ret = findValidPosition(node, Append(allNodes, e), preferredPosition, district, padding)
\* a list with peers and non-peers for which the spiral was searched
C18_Witness ==
  /\ Returned("findValidPosition") /\ Peers # <<>> /\ Len(Peers) < Len(allNodes)
  /\ ret # preferredPosition

\* C24 (as claimed): at most 8 candidates are probed at a radius (i is the number
\* of candidates probed at the current radius).
C24_EightPerRadius == pc = "spiral" => i <= 8

\* the call returned a candidate of the spiral
BySpiral == Returned("findValidPosition") /\ radius > 0 /\ radius < Px(maxRadius)
\* a position is valid: within the padded district and free of every peer
ValidAt(pos) == InPaddedBounds(pos) /\ CollisionFreeAt(pos)
WidthOrDefault == IF IsNumeric(district.style.width) THEN district.style.width.v ELSE Px(1200)
HeightOrDefault == IF IsNumeric(district.style.height) THEN district.style.height.v ELSE Px(1000)
\* C30: with a district at least as wide and as high as the node plus twice the
\* edge padding, every returned position keeps the node's rectangle within
\* [padding, size - padding] on both axes.
C30_InBoundsWhenFits ==
  (Returned("findValidPosition") /\ district # Null
     /\ WidthOrDefault >= getNodeBounds(node).width + 2 * padding
     /\ HeightOrDefault >= getNodeBounds(node).height + 2 * padding) =>
    /\ padding <= ret.x /\ ret.x + getNodeBounds(node).width <= WidthOrDefault - padding
    /\ padding <= ret.y /\ ret.y + getNodeBounds(node).height <= HeightOrDefault - padding
\* the fallback in a district without explicit dimensions
C30_Witness ==
  /\ ByFallback /\ district # Null /\ ~IsNumeric(district.style.width)
  /\ ret # preferredPosition /\ otherNodes # <<>>

(***************************************************************************)
(* Properties of the placement routine (SpecLayout)                        *)
(***************************************************************************)
\* the nodes placed so far, the one just returned included
Placed ==
  IF pc = "returned" /\ radius < Px(maxRadius)
  THEN Append(allNodes, WithPosition(node, ret))
  ELSE allNodes
CollidingPair(a, b) == checkCollision(a, b, calculateAdaptivePadding(a, b)).colliding

\* C26 (as claimed): as long as no call returned by the fallback, no two placed
\* nodes collide under their adaptive padding.
C26_LayoutCollisionFree ==
  \A j \in 1..Len(Placed), k \in 1..Len(Placed) : j < k => ~CollidingPair(Placed[j], Placed[k])
\* C26 (amended): as long as no call returned by the fallback, no two placed
\* nodes that are not of the district type collide under their adaptive padding.
C26_LayoutCollisionFreeButDistricts ==
  \A j \in 1..Len(Placed), k \in 1..Len(Placed) :
    (j < k /\ Placed[j].type # "district" /\ Placed[k].type # "district") =>
      ~CollidingPair(Placed[j], Placed[k])
\* three nodes placed, all preferring the same position, the last by the spiral
C26_Witness ==
  /\ Len(Placed) = 3 /\ pc = "returned"
  /\ \A k \in 1..3 : Placed[k].type = "note"
  /\ ret # preferredPosition /\ Placed[1].position = preferredPosition

(***************************************************************************)
(* Properties of the drag loop (SpecDrag, SpecDragFair)                    *)
(***************************************************************************)
\* C27 (as claimed): with the neighbour in the zone of the dragged node at the
\* start, a frame comes on which the force is the zero force.
C27_EventuallyZero == <>(pc = "apply" /\ ret = ZeroForce)

====
